---- MODULE Spec2Model ----
(***************************************************************************)
(* MCP Tools Manager (packages/ai-sdk-tools): createMCPTools and its       *)
(* combined close(), over the Context7 provider adapter                    *)
(* (createContext7Tools, isContext7Available, getApiKey).                  *)
(*                                                                         *)
(* JavaScript runs each synchronous stretch to completion, so one action   *)
(* is one stretch: from a call or a promise settlement up to the next      *)
(* await on an external promise (or the return).                           *)
(***************************************************************************)
EXTENDS Integers, Sequences, FiniteSets, TLC

\* ------------------------------------------------------------------ bounds
NumInvocations == 1        \* createMCPTools invocations that may be in flight
MaxCloseCalls == 2         \* combined close() calls over all results
MaxListCalls == 2          \* getAvailableMCPTools calls
NumConcurrent == 2         \* invocations interleaved in ConcSpec

Inv == 1..NumInvocations
ConcInv == 1..NumConcurrent

\* ------------------------------------------------------------- value space
Undef == "undefined"                 \* the JavaScript undefined
Throw == "Context7ApiKeyError"       \* getApiKey's exception
EnvValues == {Undef, "", "env-key"}  \* process.env.CONTEXT7_API_KEY
ApiKeys == {Undef, "", "cfg-key"}    \* Context7Config.apiKey

\* Context7Config: `defined` is FALSE for an undefined config argument
Context7Config == [defined : {TRUE}, apiKey : ApiKeys]
NoConfig == [defined |-> FALSE, apiKey |-> Undef]

\* MCPToolsManagerConfig.context7: absent | true | false | Context7Config
MCPToolsManagerConfig ==
    {[tag |-> "absent", apiKey |-> Undef],
     [tag |-> "true", apiKey |-> Undef],
     [tag |-> "false", apiKey |-> Undef]}
    \cup [tag : {"record"}, apiKey : ApiKeys]

\* what client.tools() may list (tool names of the provider)
ToolListings == {{"resolve-library-id"}, {"resolve-library-id", "get-library-docs"}}

NoTools == [n \in {} |-> 0]

\* --------------------------------------------------------- pure functions
\* getApiKey: config?.apiKey ?? process.env.CONTEXT7_API_KEY; throws if falsy
getApiKeyEnvFirst(c, e) ==
    LET apiKey == IF e # Undef THEN e ELSE c.apiKey
    IN  IF apiKey = Undef \/ apiKey = "" THEN Throw ELSE apiKey

getApiKey(c, e) ==
    LET apiKey == IF c.defined /\ c.apiKey # Undef THEN c.apiKey ELSE e
    IN  IF apiKey = Undef \/ apiKey = "" THEN Throw ELSE apiKey

\* isContext7Available: try { getApiKey(config); return true } catch { return false }
isContext7AvailableDefinedOnly(c, e) ==
    (IF c.defined /\ c.apiKey # Undef THEN c.apiKey ELSE e) # Undef

isContext7Available(c, e) == getApiKey(c, e) # Throw

\* context7Config: true -> {}, false -> undefined, otherwise the entry itself
context7Config(cfg) ==
    CASE cfg.tag = "true" -> [defined |-> TRUE, apiKey |-> Undef]
      [] cfg.tag = "false" -> NoConfig
      [] cfg.tag = "absent" -> NoConfig
      [] OTHER -> [defined |-> TRUE, apiKey |-> cfg.apiKey]

\* shouldEnableContext7
shouldEnableContext7NoDisable(cfg, e) ==
    cfg.tag # "absent" \/ isContext7Available(context7Config(cfg), e)

shouldEnableContext7NoAuto(cfg, e) ==
    cfg.tag # "false" /\ cfg.tag # "absent"

shouldEnableContext7(cfg, e) ==
    cfg.tag # "false"
    /\ (cfg.tag # "absent" \/ isContext7Available(context7Config(cfg), e))

\* the probe of line 92 is evaluated only when both short-circuits let it
ProbeAtDecision(cfg) == cfg.tag # "false" /\ ~(cfg.tag # "absent")

\* the condition of the if: the probe of line 94 is evaluated only if
\* shouldEnableContext7 is true
Attempt(cfg, e) ==
    shouldEnableContext7(cfg, e) /\ isContext7Available(context7Config(cfg), e)

\* Object.assign(target, source)
ObjectAssign(target, source) ==
    [n \in DOMAIN target \cup DOMAIN source |->
        IF n \in DOMAIN source THEN source[n] ELSE target[n]]

\* the tools object a client returns: every listed name bound to that client
ClientTools(i, listing) == [n \in listing |-> i]

\* closeFunctions.map((fn) => fn()): how often each retained close is invoked
MapInvokeSkipFirst(fns) == [j \in 1..Len(fns) |-> IF j = 1 THEN 0 ELSE 1]

MapInvoke(fns) == [j \in 1..Len(fns) |-> 1]

\* Promise.all over the per-provider close promises: rejects as soon as one
\* has rejected, fulfils once all have fulfilled, pending otherwise
PromiseAllNoWait(st) == "fulfilled"

PromiseAllSettled(st) ==
    IF \A j \in DOMAIN st : st[j] # "pending" THEN "fulfilled" ELSE "pending"

PromiseAny(st) ==
    IF \E j \in DOMAIN st : st[j] = "fulfilled" THEN "fulfilled"
    ELSE IF \A j \in DOMAIN st : st[j] = "rejected" THEN "rejected"
    ELSE "pending"

PromiseAll(st) ==
    IF \E j \in DOMAIN st : st[j] = "rejected" THEN "rejected"
    ELSE IF \A j \in DOMAIN st : st[j] = "fulfilled" THEN "fulfilled"
    ELSE "pending"

\* ------------------------------------------------------------------ state
VARIABLES
    env,             \* process.env.CONTEXT7_API_KEY
    pc,              \* per invocation: idle | connecting | listing | done | threw
    config,          \* per invocation: the context7 entry of the argument
    tools,           \* per invocation: the aggregate tools mapping
    closeFunctions,  \* per invocation: retained close handles (client ids)
    enabledSources,  \* per invocation: activated provider identifiers
    warnings,        \* per invocation: console.warn calls
    probeCalls,      \* per invocation: isContext7Available calls
    probeResult,     \* per invocation: what the last probe returned
    activateCalls,   \* per invocation: createContext7Tools calls
    failedAt,        \* per invocation: step at which activation failed
    client,          \* per invocation: the MCP client it created
    closes,          \* per invocation: close() calls on its result, in call order
    \* direct use of the adapter and of getAvailableMCPTools
    dpc,             \* createContext7Tools call: idle | connecting | listing | returned | threw
    dopts,           \* its options: config and whether onError is supplied
    denv,            \* env when it was called
    derror,          \* what it threw or rejected with
    dclient,         \* the MCP client it created
    dtools,          \* the tools it returned
    onReadyCalls,    \* calls of options.onReady
    onErrorCalls,    \* calls of options.onError
    probe,           \* the last isContext7Available(config) call
    listed           \* getAvailableMCPTools calls, in call order

managerVars == <<pc, config, tools, closeFunctions, enabledSources,
                 warnings, probeCalls, probeResult, activateCalls, failedAt,
                 client, closes>>

adapterVars == <<dpc, dopts, denv, derror, dclient, dtools, onReadyCalls,
                 onErrorCalls, probe, listed>>

vars == <<env, managerVars, adapterVars>>

NoProbe == [called |-> FALSE, config |-> NoConfig, env |-> Undef,
            result |-> "none"]

AdapterInit ==
    /\ dpc = "idle"
    /\ dopts = [config |-> NoConfig, onError |-> FALSE]
    /\ denv = Undef
    /\ derror = "none"
    /\ dclient = [state |-> "none", apiKey |-> Undef]
    /\ dtools = NoTools
    /\ onReadyCalls = 0
    /\ onErrorCalls = 0
    /\ probe = NoProbe
    /\ listed = <<>>

NoClient == [state |-> "none", apiKey |-> Undef, closeCalls |-> 0]

\* no invocation of the set D has been made yet
ManagerInit(D) ==
    /\ pc = [i \in D |-> "idle"]
    /\ config = [i \in D |-> [tag |-> "absent", apiKey |-> Undef]]
    /\ tools = [i \in D |-> NoTools]
    /\ closeFunctions = [i \in D |-> <<>>]
    /\ enabledSources = [i \in D |-> <<>>]
    /\ warnings = [i \in D |-> 0]
    /\ probeCalls = [i \in D |-> 0]
    /\ probeResult = [i \in D |-> "none"]
    /\ activateCalls = [i \in D |-> 0]
    /\ failedAt = [i \in D |-> "none"]
    /\ client = [i \in D |-> NoClient]
    /\ closes = [i \in D |-> <<>>]

Init ==
    /\ env \in EnvValues
    /\ ManagerInit(Inv)
    /\ AdapterInit

\* the environment variable is set, emptied or unset between two stretches
SetEnv(v) ==
    /\ env # v
    /\ env' = v
    /\ UNCHANGED <<pc, config, tools, closeFunctions, enabledSources,
                   warnings, probeCalls, probeResult, activateCalls, failedAt,
                   client, closes>>
    /\ UNCHANGED adapterVars

\* ------------------------------------------------------- createMCPTools
Bool(b) == IF b THEN "true" ELSE "false"

\* createMCPTools(config), up to the first await on the provider (or to the
\* return when no activation is attempted or createContext7Tools throws
\* before it awaits)
Call(i, cfg) ==
    /\ pc[i] = "idle"
    /\ \A h \in DOMAIN pc : h < i => pc[h] # "idle"   \* i is the i-th call
    /\ LET c7 == context7Config(cfg)
           p1 == ProbeAtDecision(cfg)
           p2 == shouldEnableContext7(cfg, env)
           attempt == Attempt(cfg, env)
           key == getApiKey(c7, env)
       IN  /\ config' = [config EXCEPT ![i] = cfg]
           /\ probeCalls' = [probeCalls EXCEPT
                  ![i] = (IF p1 THEN 1 ELSE 0) + (IF p2 THEN 1 ELSE 0)]
           /\ probeResult' = [probeResult EXCEPT
                  ![i] = IF p1 \/ p2 THEN Bool(isContext7Available(c7, env))
                         ELSE "none"]
           /\ activateCalls' = [activateCalls EXCEPT
                  ![i] = IF attempt THEN 1 ELSE 0]
           /\ IF attempt /\ key # Throw
              THEN \* new transport, experimental_createMCPClient awaited
                   /\ client' = [client EXCEPT
                          ![i] = [state |-> "connecting", apiKey |-> key,
                                  closeCalls |-> 0]]
                   /\ pc' = [pc EXCEPT ![i] = "connecting"]
                   /\ UNCHANGED <<warnings, failedAt>>
              ELSE IF attempt
              THEN \* getApiKey threw inside createContext7Tools: caught
                   /\ warnings' = [warnings EXCEPT ![i] = @ + 1]
                   /\ failedAt' = [failedAt EXCEPT ![i] = "config"]
                   /\ pc' = [pc EXCEPT ![i] = "done"]
                   /\ UNCHANGED client
              ELSE /\ pc' = [pc EXCEPT ![i] = "done"]
                   /\ UNCHANGED <<warnings, failedAt, client>>
    /\ UNCHANGED <<env, tools, closeFunctions, enabledSources, closes>>
    /\ UNCHANGED adapterVars

\* experimental_createMCPClient fulfils: onReady, then client.tools() awaited
ConnectResolve(i) ==
    /\ pc[i] = "connecting"
    /\ client[i].state = "connecting"
    /\ client' = [client EXCEPT ![i].state = "open"]
    /\ pc' = [pc EXCEPT ![i] = "listing"]
    /\ UNCHANGED <<env, config, tools, closeFunctions,
                   enabledSources, warnings, probeCalls, probeResult,
                   activateCalls, failedAt, closes>>
    /\ UNCHANGED adapterVars

\* experimental_createMCPClient rejects: createContext7Tools rejects, the
\* catch of createMCPTools warns, and the result is returned
ConnectRejectUncaught(i) ==
    /\ pc[i] = "connecting"
    /\ client[i].state = "connecting"
    /\ client' = [client EXCEPT ![i].state = "failed"]
    /\ failedAt' = [failedAt EXCEPT ![i] = "connect"]
    /\ pc' = [pc EXCEPT ![i] = "threw"]
    /\ UNCHANGED <<env, config, tools, closeFunctions,
                   enabledSources, warnings, probeCalls, probeResult,
                   activateCalls, closes>>
    /\ UNCHANGED adapterVars

ConnectReject(i) ==
    /\ pc[i] = "connecting"
    /\ client[i].state = "connecting"
    /\ client' = [client EXCEPT ![i].state = "failed"]
    /\ warnings' = [warnings EXCEPT ![i] = @ + 1]
    /\ failedAt' = [failedAt EXCEPT ![i] = "connect"]
    /\ pc' = [pc EXCEPT ![i] = "done"]
    /\ UNCHANGED <<env, config, tools, closeFunctions,
                   enabledSources, probeCalls, probeResult, activateCalls,
                   closes>>
    /\ UNCHANGED adapterVars

\* client.tools() fulfils: createContext7Tools returns {tools, close}; the
\* manager merges the tools, retains the close and records the source
ToolsResolveNoClose(i, listing) ==
    /\ pc[i] = "listing"
    /\ client[i].state = "open"
    /\ tools' = [tools EXCEPT ![i] = ObjectAssign(@, ClientTools(i, listing))]
    /\ enabledSources' = [enabledSources EXCEPT ![i] = Append(@, "context7")]
    /\ pc' = [pc EXCEPT ![i] = "done"]
    /\ UNCHANGED <<env, config, warnings, probeCalls, probeResult,
                   activateCalls, failedAt, client, closes, closeFunctions>>
    /\ UNCHANGED adapterVars

ToolsResolve(i, listing) ==
    /\ pc[i] = "listing"
    /\ client[i].state = "open"
    /\ tools' = [tools EXCEPT ![i] = ObjectAssign(@, ClientTools(i, listing))]
    /\ closeFunctions' = [closeFunctions EXCEPT ![i] = Append(@, i)]
    /\ enabledSources' = [enabledSources EXCEPT ![i] = Append(@, "context7")]
    /\ pc' = [pc EXCEPT ![i] = "done"]
    /\ UNCHANGED <<env, config, warnings, probeCalls, probeResult,
                   activateCalls, failedAt, client, closes>>
    /\ UNCHANGED adapterVars

\* client.tools() rejects: createContext7Tools rejects with the client still
\* connected; the catch of createMCPTools warns, and the result is returned
ToolsRejectPartial(i) ==
    /\ pc[i] = "listing"
    /\ client[i].state = "open"
    /\ enabledSources' = [enabledSources EXCEPT ![i] = Append(@, "context7")]
    /\ warnings' = [warnings EXCEPT ![i] = @ + 1]
    /\ failedAt' = [failedAt EXCEPT ![i] = "tools"]
    /\ pc' = [pc EXCEPT ![i] = "done"]
    /\ UNCHANGED <<env, config, tools, closeFunctions, probeCalls,
                   probeResult, activateCalls, client, closes>>
    /\ UNCHANGED adapterVars

ToolsReject(i) ==
    /\ pc[i] = "listing"
    /\ client[i].state = "open"
    /\ warnings' = [warnings EXCEPT ![i] = @ + 1]
    /\ failedAt' = [failedAt EXCEPT ![i] = "tools"]
    /\ pc' = [pc EXCEPT ![i] = "done"]
    /\ UNCHANGED <<env, config, tools, closeFunctions,
                   enabledSources, probeCalls, probeResult, activateCalls,
                   client, closes>>
    /\ UNCHANGED adapterVars

\* the provider process never answers the pending request: neither await of
\* createContext7Tools carries a timer, so nothing wakes the invocation
ProviderHangs(i) ==
    /\ pc[i] \in {"connecting", "listing"}
    /\ client[i].state \in {"connecting", "open"}
    /\ client' = [client EXCEPT ![i].state = "hung"]
    /\ UNCHANGED <<env, pc, config, tools, closeFunctions,
                   enabledSources, warnings, probeCalls, probeResult,
                   activateCalls, failedAt, closes>>
    /\ UNCHANGED adapterVars

\* ---------------------------------------------------------------- close()
\* combined close() calls made so far, over all results
CloseCallsMade == LET last == Cardinality(DOMAIN closes)
                      n[i \in 0..last] ==
                          IF i = 0 THEN 0 ELSE n[i - 1] + Len(closes[i])
                  IN  n[last]

\* every close handle retained by any invocation, in invocation order
AllCloseFunctions ==
    LET last == Cardinality(DOMAIN closeFunctions)
        all[i \in 0..last] ==
            IF i = 0 THEN <<>> ELSE all[i - 1] \o closeFunctions[i]
    IN  all[last]

\* result.close() is called: every retained close is invoked at once (each
\* calls client.close() before its own await), then Promise.all is awaited
CloseCallShared(i) ==
    /\ pc[i] = "done"
    /\ CloseCallsMade < MaxCloseCalls
    /\ LET fns == AllCloseFunctions
           inv == MapInvoke(fns)
       IN  /\ closes' = [closes EXCEPT ![i] = Append(@,
                  [fns |-> fns, invoked |-> inv,
                   perClose |-> [j \in 1..Len(fns) |->
                                   IF inv[j] > 0 THEN "pending" ELSE "fulfilled"],
                   status |-> "pending"])]
           /\ client' = [c \in DOMAIN client |->
                  [client[c] EXCEPT !.closeCalls = @ +
                      Cardinality({j \in 1..Len(fns) : fns[j] = c /\ inv[j] > 0})]]
    /\ UNCHANGED <<env, pc, config, tools, closeFunctions,
                   enabledSources, warnings, probeCalls, probeResult,
                   activateCalls, failedAt>>
    /\ UNCHANGED adapterVars

CloseCall(i) ==
    /\ pc[i] = "done"
    /\ CloseCallsMade < MaxCloseCalls
    /\ LET fns == closeFunctions[i]
           inv == MapInvoke(fns)
       IN  /\ closes' = [closes EXCEPT ![i] = Append(@,
                  [fns |-> fns, invoked |-> inv,
                   perClose |-> [j \in 1..Len(fns) |->
                                   IF inv[j] > 0 THEN "pending" ELSE "fulfilled"],
                   status |-> "pending"])]
           /\ client' = [c \in DOMAIN client |->
                  [client[c] EXCEPT !.closeCalls = @ +
                      Cardinality({j \in 1..Len(fns) : fns[j] = c /\ inv[j] > 0})]]
    /\ UNCHANGED <<env, pc, config, tools, closeFunctions,
                   enabledSources, warnings, probeCalls, probeResult,
                   activateCalls, failedAt>>
    /\ UNCHANGED adapterVars

\* one client.close() settles; the per-provider close settles the same way
PerCloseSettle(i, k, j, ok) ==
    /\ k \in 1..Len(closes[i])
    /\ j \in 1..Len(closes[i][k].perClose)
    /\ closes[i][k].perClose[j] = "pending"
    /\ closes' = [closes EXCEPT
           ![i][k].perClose[j] = IF ok THEN "fulfilled" ELSE "rejected"]
    /\ LET c == closes[i][k].fns[j]
       IN  client' = IF ok THEN [client EXCEPT ![c].state = "closed"] ELSE client
    /\ UNCHANGED <<env, pc, config, tools, closeFunctions,
                   enabledSources, warnings, probeCalls, probeResult,
                   activateCalls, failedAt>>
    /\ UNCHANGED adapterVars

\* the await on Promise.all(...) resumes: close() fulfils or rejects with it
CombinedSettle(i, k) ==
    /\ k \in 1..Len(closes[i])
    /\ closes[i][k].status = "pending"
    /\ PromiseAll(closes[i][k].perClose) # "pending"
    /\ closes' = [closes EXCEPT
           ![i][k].status = PromiseAll(closes[i][k].perClose)]
    /\ UNCHANGED <<env, pc, config, tools, closeFunctions,
                   enabledSources, warnings, probeCalls, probeResult,
                   activateCalls, failedAt, client>>
    /\ UNCHANGED adapterVars

\* ---------------------------------------------------------- specification
Next ==
    \/ \E v \in EnvValues : SetEnv(v)
    \/ \E i \in Inv, cfg \in MCPToolsManagerConfig : Call(i, cfg)
    \/ \E i \in Inv : ConnectResolve(i)
    \/ \E i \in Inv : ConnectReject(i)
    \/ \E i \in Inv, l \in ToolListings : ToolsResolve(i, l)
    \/ \E i \in Inv : ToolsReject(i)
    \/ \E i \in Inv : ProviderHangs(i)
    \/ \E i \in Inv : CloseCall(i)
    \/ \E i \in Inv, k \in 1..MaxCloseCalls, j \in 1..1, ok \in BOOLEAN :
           PerCloseSettle(i, k, j, ok)
    \/ \E i \in Inv, k \in 1..MaxCloseCalls : CombinedSettle(i, k)

Spec == Init /\ [][Next]_vars

\* a provider that has not hung answers each pending request
Answer(i) ==
    \/ ConnectResolve(i)
    \/ ConnectReject(i)
    \/ \E l \in ToolListings : ToolsResolve(i, l)
    \/ ToolsReject(i)

LiveSpec == Spec /\ \A i \in Inv : WF_vars(Answer(i))

TypeOK ==
    /\ env \in EnvValues
    /\ pc \in [Inv -> {"idle", "connecting", "listing", "done", "threw"}]
    /\ config \in [Inv -> MCPToolsManagerConfig]
    /\ \A i \in Inv : Len(closeFunctions[i]) <= 1 /\ Len(enabledSources[i]) <= 1
    /\ CloseCallsMade <= MaxCloseCalls

\* ------------------------------------------------ interleaved invocations
\* several createMCPTools invocations in flight at once, in one environment
\* that holds a key, each called with no entry, with false or with an
\* explicit key
ConcConfigs ==
    {[tag |-> "absent", apiKey |-> Undef],
     [tag |-> "false", apiKey |-> Undef],
     [tag |-> "record", apiKey |-> "cfg-key"]}

ConcInit ==
    /\ env = "env-key"
    /\ ManagerInit(ConcInv)
    /\ AdapterInit

ConcNext ==
    \/ \E i \in ConcInv, cfg \in ConcConfigs : Call(i, cfg)
    \/ \E i \in ConcInv : ConnectResolve(i)
    \/ \E i \in ConcInv : ConnectReject(i)
    \/ \E i \in ConcInv, l \in ToolListings : ToolsResolve(i, l)
    \/ \E i \in ConcInv : ToolsReject(i)
    \/ \E i \in ConcInv : CloseCall(i)
    \/ \E i \in ConcInv, k \in 1..MaxCloseCalls, j \in 1..1, ok \in BOOLEAN :
           PerCloseSettle(i, k, j, ok)
    \/ \E i \in ConcInv, k \in 1..MaxCloseCalls : CombinedSettle(i, k)

ConcSpec == ConcInit /\ [][ConcNext]_vars

\* ------------------------------------------------ direct use of the adapter
Context7Options == Context7Config \cup {NoConfig}

\* createContext7Tools(options) called directly, up to its first await; the
\* error of getApiKey leaves the function as it is thrown
DirectCall(c, onErr) ==
    /\ dpc = "idle"
    /\ dopts' = [config |-> c, onError |-> onErr]
    /\ denv' = env
    /\ IF getApiKey(c, env) = Throw
       THEN /\ dpc' = "threw"
            /\ derror' = Throw
            /\ UNCHANGED dclient
       ELSE /\ dpc' = "connecting"
            /\ dclient' = [state |-> "connecting", apiKey |-> getApiKey(c, env)]
            /\ UNCHANGED derror
    /\ UNCHANGED <<env, managerVars, dtools, onReadyCalls, onErrorCalls,
                   probe, listed>>

\* experimental_createMCPClient fulfils: onReady is called, client.tools()
\* is awaited
DirectConnectResolve ==
    /\ dpc = "connecting"
    /\ dclient' = [dclient EXCEPT !.state = "open"]
    /\ onReadyCalls' = onReadyCalls + 1
    /\ dpc' = "listing"
    /\ UNCHANGED <<env, managerVars, dopts, denv, derror, dtools,
                   onErrorCalls, probe, listed>>

\* experimental_createMCPClient rejects: so does createContext7Tools
DirectConnectReject ==
    /\ dpc = "connecting"
    /\ dclient' = [dclient EXCEPT !.state = "failed"]
    /\ derror' = "connect"
    /\ dpc' = "threw"
    /\ UNCHANGED <<env, managerVars, dopts, denv, dtools, onReadyCalls,
                   onErrorCalls, probe, listed>>

\* client.tools() fulfils: {tools, close} is returned
DirectToolsResolve(listing) ==
    /\ dpc = "listing"
    /\ dtools' = ClientTools(0, listing)
    /\ dpc' = "returned"
    /\ UNCHANGED <<env, managerVars, dopts, denv, derror, dclient,
                   onReadyCalls, onErrorCalls, probe, listed>>

\* client.tools() rejects: so does createContext7Tools, the client stays
\* connected
DirectToolsReject ==
    /\ dpc = "listing"
    /\ derror' = "tools"
    /\ dpc' = "threw"
    /\ UNCHANGED <<env, managerVars, dopts, denv, dclient, dtools,
                   onReadyCalls, onErrorCalls, probe, listed>>

\* isContext7Available(config) called directly
Probe(c) ==
    /\ probe' = [called |-> TRUE, config |-> c, env |-> env,
                 result |-> Bool(isContext7Available(c, env))]
    /\ probe' # probe
    /\ UNCHANGED <<env, managerVars, dpc, dopts, denv, derror, dclient,
                   dtools, onReadyCalls, onErrorCalls, listed>>

\* getAvailableMCPTools()
getAvailableMCPToolsAlways(e) == <<"context7">>

getAvailableMCPTools(e) ==
    IF isContext7Available(NoConfig, e) THEN <<"context7">> ELSE <<>>

ListAvailable ==
    /\ Len(listed) < MaxListCalls
    /\ listed' = Append(listed,
           [env |-> env, available |-> getAvailableMCPTools(env)])
    /\ UNCHANGED <<env, managerVars, dpc, dopts, denv, derror, dclient,
                   dtools, onReadyCalls, onErrorCalls, probe>>

AdapterNext ==
    \/ \E v \in EnvValues : SetEnv(v)
    \/ \E c \in Context7Options, onErr \in BOOLEAN : DirectCall(c, onErr)
    \/ DirectConnectResolve
    \/ DirectConnectReject
    \/ \E l \in ToolListings : DirectToolsResolve(l)
    \/ DirectToolsReject
    \/ \E c \in Context7Options : Probe(c)
    \/ ListAvailable

\* the adapter's entry points share only the environment variable with the
\* manager, so their direct use is explored on its own
AdapterSpec == Init /\ [][AdapterNext]_vars

\* ------------------------------------------------------------ properties
Called(i) == pc[i] # "idle"

ExplicitlyEnabled(i) == config[i].tag \in {"true", "record"}

\* C1: a provider whose activation failed (at configuration resolution, at
\* the connection or at the tool listing) is excluded from the result: it is
\* not in enabledSources, none of its tools are in the tools mapping and no
\* close handle is retained for it.
C1_FailureIsolation ==
    \A i \in Inv :
        failedAt[i] # "none" =>
            /\ enabledSources[i] = <<>>
            /\ DOMAIN tools[i] = {}
            /\ closeFunctions[i] = <<>>

C1_Witness ==
    \E i \in Inv :
        /\ pc[i] = "done"
        /\ failedAt[i] = "tools"
        /\ client[i].state = "open"
        /\ warnings[i] = 1

\* C2: createMCPTools never throws or rejects because of a provider failure:
\* whatever the configuration and whatever step of the activation failed,
\* the invocation has returned its result.
C2_NeverThrows ==
    \A i \in Inv :
        /\ pc[i] # "threw"
        /\ failedAt[i] # "none" => pc[i] = "done"

C2_Witness ==
    \E i \in Inv :
        /\ pc[i] = "done"
        /\ failedAt[i] = "connect"
        /\ client[i].state = "failed"

\* C3: for a provider disabled in the configuration (context7: false) the
\* availability probe and the activation are never invoked and the provider
\* is not in enabledSources, whatever the environment holds.
C3_DisabledNeverTouched ==
    \A i \in Inv :
        (Called(i) /\ config[i].tag = "false") =>
            /\ probeCalls[i] = 0
            /\ activateCalls[i] = 0
            /\ client[i].state = "none"
            /\ enabledSources[i] = <<>>

C3_Witness ==
    \E i \in Inv :
        /\ pc[i] = "done"
        /\ config[i].tag = "false"
        /\ env = "env-key"
        /\ probeResult[i] = "none"

\* C4: when the configuration entry is present and not disabled (true or a
\* settings record), createContext7Tools is invoked exactly once, whatever
\* the availability probe reports.
C4_ExplicitAttemptsOnce ==
    \A i \in Inv :
        (Called(i) /\ ExplicitlyEnabled(i)) => activateCalls[i] = 1

\* C5: with no configuration entry, activation is attempted iff the probe
\* returned true at call time; when it returned false the provider is
\* skipped and is not in enabledSources.
C5_AutoDetect ==
    \A i \in Inv :
        (Called(i) /\ config[i].tag = "absent") =>
            /\ probeCalls[i] >= 1
            /\ probeResult[i] \in {"true", "false"}
            /\ activateCalls[i] = 1 <=> probeResult[i] = "true"
            /\ activateCalls[i] <= 1
            /\ probeResult[i] = "false" =>
                   enabledSources[i] = <<>> /\ client[i].state = "none"

C5_Witness ==
    \E i \in Inv :
        /\ pc[i] = "done"
        /\ config[i].tag = "absent"
        /\ probeResult[i] = "true"
        /\ activateCalls[i] = 1
        /\ enabledSources[i] = <<"context7">>

\* C6: every provider selected for activation (explicitly enabled, a key
\* resolvable or not) that is not in enabledSources of the returned result
\* has had a warning emitted for it.
C6_MissingConfigWarned ==
    \A i \in Inv :
        (pc[i] = "done" /\ ExplicitlyEnabled(i) /\ enabledSources[i] = <<>>) =>
            warnings[i] >= 1

\* C7: one call of the combined close() invokes every retained per-provider
\* close exactly once, whether or not one of them fails; each such invocation
\* reaches client.close() once.
C7_CloseInvokesEachOnce ==
    \A i \in Inv :
        /\ \A k \in 1..Len(closes[i]) :
               /\ Len(closes[i][k].invoked) = Len(closeFunctions[i])
               /\ \A j \in 1..Len(closeFunctions[i]) :
                      closes[i][k].invoked[j] = 1
        /\ client[i].closeCalls = Len(closes[i]) * Len(closeFunctions[i])

C7_Witness ==
    \E i \in Inv :
        /\ closeFunctions[i] # <<>>
        /\ Len(closes[i]) = 1
        /\ closes[i][1].perClose[1] = "rejected"
        /\ client[i].closeCalls = 1

C9_CloseFailureSurfaces ==
    \A i \in Inv :
        \A k \in 1..Len(closes[i]) :
            (/\ closes[i][k].status # "pending"
             /\ \E j \in 1..Len(closes[i][k].perClose) :
                    closes[i][k].perClose[j] = "rejected")
                => closes[i][k].status = "rejected"

C9_Witness ==
    \E i \in Inv :
        \E k \in 1..Len(closes[i]) :
            /\ closes[i][k].perClose = <<"rejected">>
            /\ closes[i][k].status = "rejected"

\* C10: a createMCPTools invocation that is waiting for its provider
\* eventually completes, even if the provider never answers.
C10_EventuallyCompletes ==
    \A i \in Inv : (pc[i] \in {"connecting", "listing"}) ~> (pc[i] = "done")

\* C11: configuration resolution fails with Context7ApiKeyError iff both
\* the explicit apiKey and the environment value are absent; whenever the
\* environment value is present it succeeds, also for an explicit apiKey
\* that is the empty string.
ExplicitKeyAbsent(c) == ~c.defined \/ c.apiKey = Undef

C11_MissingOnlyWhenBothAbsent ==
    dpc # "idle" =>
        (derror = Throw <=> (ExplicitKeyAbsent(dopts.config) /\ denv = Undef))

\* C12: isContext7Available(config) returns a boolean, and it returns true
\* iff createContext7Tools, called with the same config in the same
\* environment, does not fail with Context7ApiKeyError; the probe changes
\* nothing but the record of its own call.
C12_ProbeAgreesWithResolution ==
    /\ [](probe.called =>
            /\ probe.result \in {"true", "false"}
            /\ (dpc # "idle" /\ probe.config = dopts.config /\ probe.env = denv)
                   => (probe.result = "true" <=> derror # Throw))
    /\ [][probe' # probe =>
            UNCHANGED <<env, managerVars, dpc, dopts, denv, derror, dclient,
                        dtools, onReadyCalls, onErrorCalls, listed>>]_vars

C12_Witness ==
    /\ probe.called
    /\ dpc = "threw"
    /\ derror = Throw
    /\ probe.config = dopts.config
    /\ probe.env = denv
    /\ denv = "env-key"
    /\ dopts.config.apiKey = ""
    /\ probe.result = "false"

\* C14: the key a createMCPTools invocation connects with is the explicit
\* apiKey when the entry is a settings record that supplies one, and the
\* environment value at call time otherwise; true resolves as a settings
\* record without apiKey does. Without a usable key no client is created.
C14_ExplicitThenEnvironment ==
    [][\A i \in Inv :
          (pc[i] = "idle" /\ pc'[i] # "idle" /\ config'[i].tag # "false") =>
              LET cfg == config'[i]
                  explicit == cfg.tag = "record" /\ cfg.apiKey # Undef
                  expected == IF explicit THEN cfg.apiKey ELSE env
              IN  IF expected = Undef \/ expected = ""
                  THEN client'[i].state = "none"
                  ELSE /\ client'[i].state = "connecting"
                       /\ client'[i].apiKey = expected]_vars

C14_Witness ==
    \E i \in Inv :
        /\ pc[i] = "connecting"
        /\ config[i] = [tag |-> "record", apiKey |-> "cfg-key"]
        /\ env = "env-key"
        /\ client[i].apiKey = "cfg-key"

\* C15: getAvailableMCPTools reports context7 iff the probe without explicit
\* configuration is true in the same environment; two calls in the same
\* environment return the same list; a call changes nothing but the record
\* of its own result, and creates no client.
C15_ListAvailable ==
    /\ [](\A k \in 1..Len(listed) :
            /\ listed[k].available \in {<<>>, <<"context7">>}
            /\ (probe.called /\ probe.config = NoConfig
                             /\ probe.env = listed[k].env)
                   => (listed[k].available = <<"context7">>
                          <=> probe.result = "true")
            /\ \A l \in 1..Len(listed) :
                   listed[l].env = listed[k].env
                       => listed[l].available = listed[k].available)
    /\ [][listed' # listed =>
            UNCHANGED <<env, managerVars, dpc, dopts, denv, derror, dclient,
                        dtools, onReadyCalls, onErrorCalls, probe>>]_vars

C15_Witness ==
    /\ Len(listed) = 2
    /\ listed[1] = [env |-> "env-key", available |-> <<"context7">>]
    /\ listed[2] = listed[1]
    /\ probe = [called |-> TRUE, config |-> NoConfig, env |-> "env-key",
                result |-> "true"]

\* C16: close() on a result without enabled providers invokes no
\* per-provider close and does not reject.
C16_CloseOfEmptyResult ==
    \A i \in Inv :
        \A k \in 1..Len(closes[i]) :
            closeFunctions[i] = <<>> =>
                /\ closes[i][k].invoked = <<>>
                /\ closes[i][k].perClose = <<>>
                /\ closes[i][k].status # "rejected"
                /\ client[i].closeCalls = 0

C16_Witness ==
    \E i \in Inv :
        \E k \in 1..Len(closes[i]) :
            /\ enabledSources[i] = <<>>
            /\ DOMAIN tools[i] = {}
            /\ closeFunctions[i] = <<>>
            /\ closes[i][k].status = "fulfilled"

\* C17: a failing createContext7Tools call that was given an onError
\* callback has invoked it.
C17_OnErrorInvoked ==
    (dpc = "threw" /\ dopts.onError) => onErrorCalls >= 1

\* C18: every connection a returned createMCPTools result has left open has
\* its close handle retained in that result.
C18_NoLeak ==
    \A i \in Inv :
        (pc[i] = "done" /\ client[i].state = "open") =>
            \E j \in 1..Len(closeFunctions[i]) : closeFunctions[i][j] = i

\* C19: over any number of close() calls on one result, client.close() of a
\* retained connection is invoked at most once.
C19_CloseAtMostOnce ==
    \A i \in Inv : client[i].closeCalls <= 1

\* C20: in every state of an invocation the provider is in enabledSources
\* iff its close handle is retained and its tools are merged: the two lists
\* have the same length and the tools mapping holds exactly the tools of
\* the enabled provider.
C20_AggregateConsistent ==
    \A i \in Inv :
        /\ Len(closeFunctions[i]) = Len(enabledSources[i])
        /\ enabledSources[i] = <<>> => DOMAIN tools[i] = {}
        /\ enabledSources[i] # <<>> =>
               /\ enabledSources[i] = <<"context7">>
               /\ closeFunctions[i] = <<i>>
               /\ DOMAIN tools[i] \in ToolListings
               /\ \A n \in DOMAIN tools[i] : tools[i][n] = i
               /\ pc[i] = "done"
               /\ failedAt[i] = "none"

C20_Witness ==
    \E i \in Inv :
        /\ pc[i] = "done"
        /\ enabledSources[i] = <<"context7">>
        /\ closeFunctions[i] = <<i>>
        /\ DOMAIN tools[i] = {"resolve-library-id", "get-library-docs"}

\* C13: with several invocations interleaved, each result holds only its own
\* close handle and its own client's tools, and a close() call on one result
\* invokes client.close() of that invocation's client only: every client is
\* closed as often as its own result's close() was called.
C13_IndependentInvocations ==
    \A i \in ConcInv :
        /\ \A j \in 1..Len(closeFunctions[i]) : closeFunctions[i][j] = i
        /\ \A n \in DOMAIN tools[i] : tools[i][n] = i
        /\ \A k \in 1..Len(closes[i]) : closes[i][k].fns = closeFunctions[i]
        /\ client[i].closeCalls = Len(closes[i]) * Len(closeFunctions[i])
        /\ client[i].state = "closed" => Len(closes[i]) >= 1

C13_Witness ==
    /\ pc[1] = "done" /\ pc[2] = "done"
    /\ enabledSources[1] = <<"context7">>
    /\ enabledSources[2] = <<"context7">>
    /\ Len(closes[1]) = 1
    /\ closes[1][1].status = "fulfilled"
    /\ client[1].state = "closed"
    /\ Len(closes[2]) = 0
    /\ client[2].state = "open"
    /\ client[2].closeCalls = 0

====
